---- MODULE Spec2Model ----
(***************************************************************************)
(* Poisson / hypergeometric probability calculator (src/main.py).          *)
(*                                                                         *)
(* The program is a stateless web application: six routes, each a handler  *)
(* that reads the request's parameters, calls the probability engines and  *)
(* answers.  A state of the model is the request served last together with *)
(* the answer it got and the engine calls the handler made for it.         *)
(*                                                                         *)
(* Numbers.  lam is a float; the model draws it from the multiples of      *)
(* 1/LamDen (binary fractions for LamDen = 2, so lam*3 is computed without *)
(* rounding).  A hypergeometric probability is kept as the exact fraction  *)
(* num/den of the two floats the code divides (all binomials of the model  *)
(* are small integers, exactly representable as floats).  A Poisson        *)
(* probability e^(-lam) * lam^x / x! is kept as the term (x, lam): no      *)
(* property below reads its numeric value, only whether the evaluation     *)
(* returns or raises.  The PNG/base64 rendering of a plot is left out: a   *)
(* plot is the series of (x, P(X = x)) pairs handed to plt.bar.            *)
(***************************************************************************)
EXTENDS Integers, Sequences, FiniteSets

VARIABLES route, req, resp, calls

vars == <<route, req, resp, calls>>

(* ----------------------------- bounds --------------------------------- *)

\* Integer request parameters (N, K, n, x of the hypergeometric routes) are
\* drawn from MinVal..MaxVal.
MaxVal == 10

MinVal == 0 - 1

Vals == MinVal..MaxVal

\* K also takes values above every N.
KVals == MinVal..(MaxVal + 2)

\* lam = u / LamDen for u in -LamDen .. MaxLam*LamDen.
LamDen == 2

MaxLam == 57

LamUnits == (0 - LamDen)..(MaxLam * LamDen)

\* x of the Poisson routes: small values, and the values around the largest
\* x whose factorial still converts to a float.
MaxSmallX == 3

(* ------------------------- Poisson engine ------------------------------ *)

\* 170! < DBL_MAX < 171!: float / factorial(x) at line 45 converts the exact
\* integer factorial(x) to a float and raises OverflowError from x = 171 on.
MaxFloatFactorial == 170

PoissonXs == (MinVal..MaxSmallX) \cup {MaxFloatFactorial, MaxFloatFactorial + 1}

\* The float 0.0.
Zero == [kind |-> "ratio", num |-> 0, den |-> 1]

\* The float e^(-lam) * lam^x / x!, lam = u / LamDen.
PoissonTerm(x, u) == [kind |-> "poisson", x |-> x, lam |-> u]

Return(v) == [raised |-> FALSE, val |-> v]

Raise(e) == [raised |-> TRUE, val |-> e]

\* poisson_pmf(x, lam), lam = u / LamDen.  lam ** x stays finite for every
\* lam <= 63 and x <= 170, so within the model's inputs the only overflow is
\* the conversion of factorial(x).
poisson_pmf(x, u) ==
    IF x < 0 \/ u <= 0
    THEN Return(Zero)
    ELSE IF x > MaxFloatFactorial
         THEN Raise("OverflowError")
         ELSE Return(PoissonTerm(x, u))

\* range(a, b) / np.arange(a, b): a, a+1, ..., b-1 (empty when b <= a).
Range(a, b) == [i \in 1..(IF b > a THEN b - a ELSE 0) |-> a + i - 1]

\* generate_poisson_plot_base64(lam, max_x): the list comprehension raises
\* as soon as one poisson_pmf call raises, else the bars are plotted.
generate_poisson_plot_base64(u, max_x) ==
    LET x_vals == Range(0, max_x + 1)
    IN  IF \E i \in 1..Len(x_vals) : poisson_pmf(x_vals[i], u).raised
        THEN Raise("OverflowError")
        ELSE Return([i \in 1..Len(x_vals) |->
                        <<x_vals[i], poisson_pmf(x_vals[i], u).val>>])

\* int(v) for the float v = a / d (d > 0): truncation toward zero.
IntOf(a, d) == IF a >= 0 THEN a \div d ELSE 0 - ((0 - a) \div d)

\* max_x=int(lam*3) if lam*3 > 15 else 15   (lines 87 and 116)
DefaultMaxX == 15

PlotMaxX(u) == IF 3 * u > DefaultMaxX * LamDen THEN IntOf(3 * u, LamDen) ELSE DefaultMaxX

(* ---------------------- hypergeometric engine -------------------------- *)

Max(a, b) == IF a >= b THEN a ELSE b

Min(a, b) == IF a <= b THEN a ELSE b

RECURSIVE BinomNum(_, _, _)
\* The loop of scipy's binom(n, k) for integer k: num *= i + n - kx, i = 1..kx.
BinomNum(n, kx, i) == IF i = 0 THEN 1 ELSE BinomNum(n, kx, i - 1) * (i + n - kx)

RECURSIVE BinomDen(_)
\* The same loop's den *= i, i = 1..kx.
BinomDen(i) == IF i = 0 THEN 1 ELSE BinomDen(i - 1) * i

\* scipy.special.binom(n, k) for integers 0 <= k <= n: the smaller of k and
\* n - k is taken (kx > nx/2 and nx > 0), then num/den of the product loop.
binom(n, k) ==
    LET kx == IF 2 * k > n /\ n > 0 THEN n - k ELSE k
    IN  BinomNum(n, kx, kx) \div BinomDen(kx)

\* scipy.special.comb(N, k) (exact=False): binom(N, k) where
\* (k <= N) & (N >= 0) & (k >= 0), and 0 elsewhere.
comb(N, k) == IF k <= N /\ N >= 0 /\ k >= 0 THEN binom(N, k) ELSE 0

\* hypergeometric_pmf dividing by C(N, K) instead of C(N, n).
hypergeometric_pmf_WrongDenominator(x, N, K, n) ==
    IF x < Max(0, n + K - N) \/ x > Min(n, K)
    THEN Zero
    ELSE LET numerator == comb(K, x) * comb(N - K, n - x)
             denominator == comb(N, K)
         IN  IF denominator = 0
             THEN Zero
             ELSE [kind |-> "ratio", num |-> numerator, den |-> denominator]

\* hypergeometric_pmf with x >= min(n, K) for x > min(n, K).
hypergeometric_pmf_ExcludesMax(x, N, K, n) ==
    IF x < Max(0, n + K - N) \/ x >= Min(n, K)
    THEN Zero
    ELSE LET numerator == comb(K, x) * comb(N - K, n - x)
             denominator == comb(N, n)
         IN  IF denominator = 0
             THEN Zero
             ELSE [kind |-> "ratio", num |-> numerator, den |-> denominator]

\* hypergeometric_pmf(x, N, K, n): the float numerator / denominator is kept
\* as the fraction of the two.
hypergeometric_pmf(x, N, K, n) ==
    IF x < Max(0, n + K - N) \/ x > Min(n, K)
    THEN Zero
    ELSE LET numerator == comb(K, x) * comb(N - K, n - x)
             denominator == comb(N, n)
         IN  IF denominator = 0
             THEN Zero
             ELSE [kind |-> "ratio", num |-> numerator, den |-> denominator]

\* The plot with range(min_x, max_x) for range(min_x, max_x + 1).
generate_hypergeometric_plot_DropsLast(N, K, n) ==
    LET min_x == Max(0, n + K - N)
        max_x == Min(n, K)
        x_vals == Range(min_x, max_x)
    IN  [i \in 1..Len(x_vals) |-> <<x_vals[i], hypergeometric_pmf(x_vals[i], N, K, n)>>]

\* The plot with min_x = 0 for min_x = max(0, n + K - N).
generate_hypergeometric_plot_FromZero(N, K, n) ==
    LET min_x == 0
        max_x == Min(n, K)
        x_vals == Range(min_x, max_x + 1)
    IN  [i \in 1..Len(x_vals) |-> <<x_vals[i], hypergeometric_pmf(x_vals[i], N, K, n)>>]

\* generate_hypergeometric_plot_base64(N, K, n): the bars handed to plt.bar.
generate_hypergeometric_plot_base64(N, K, n) ==
    LET min_x == Max(0, n + K - N)
        max_x == Min(n, K)
        x_vals == Range(min_x, max_x + 1)
    IN  [i \in 1..Len(x_vals) |-> <<x_vals[i], hypergeometric_pmf(x_vals[i], N, K, n)>>]

(* ----------------------------- answers --------------------------------- *)

NoValue == [kind |-> "none"]

\* A rendered template or a JSON body: status, what it carries, the
\* probability, the error message and the plotted series.
Answer(status, result, prob, message, series) ==
    [status |-> status, result |-> result, prob |-> prob,
     message |-> message, series |-> series]

\* templates.TemplateResponse(page, {"request": request}): the empty form.
BlankPage == Answer(200, "form", NoValue, "", <<>>)

\* FastAPI answers 422 when a Form(...) constraint (gt=0, ge=0) fails; the
\* handler's body does not run.
Unprocessable == Answer(422, "invalid", NoValue, "constraint", <<>>)

\* An exception leaving a handler: 500 Internal Server Error.
ServerError(e) == Answer(500, "fault", NoValue, e, <<>>)

\* "result": f"Error: {str(e)}" of the except branches (no plot_url).
ErrorPage(e) == Answer(200, "error", NoValue, e, <<>>)

\* "result": f"P(X = {x}) = {prob:.6f}", "plot_url": plot_url, and the JSON
\* bodies PoissonResponse / HypergeometricResponse.
ResultAnswer(prob, series) == Answer(200, "prob", prob, "", series)

\* ValueError("Valores inconsistentes: ...") of line 222, its one message for
\* all four checks (the source's "less or equal" signs written <=).
InconsistentMsg == "Valores inconsistentes: revisa que K <= N, n <= N, x <= n y x <= K."

Call(fn, args) == [fn |-> fn, args |-> args]

(* ----------------------------- handlers -------------------------------- *)

\* No request is being served: the application keeps nothing between requests.
Idle ==
    /\ route = "none"
    /\ req = [none |-> TRUE]
    /\ resp = Answer(0, "none", NoValue, "", <<>>)
    /\ calls = <<>>

Init == Idle

\* GET /
home ==
    /\ route = "none"
    /\ route' = "GET /"
    /\ req' = [none |-> TRUE]
    /\ resp' = BlankPage
    /\ calls' = <<>>

\* The body shared by the two Poisson handlers up to the answer: prob, then
\* the plot; the first exception ends it.
PoissonBody(x, u) ==
    LET prob == poisson_pmf(x, u)
        plot == generate_poisson_plot_base64(u, PlotMaxX(u))
    IN  IF prob.raised
        THEN [raised |-> TRUE, val |-> prob.val,
              calls |-> <<Call("poisson_pmf", <<x, u>>)>>]
        ELSE IF plot.raised
             THEN [raised |-> TRUE, val |-> plot.val,
                   calls |-> <<Call("poisson_pmf", <<x, u>>),
                               Call("generate_poisson_plot_base64", <<u, PlotMaxX(u)>>)>>]
             ELSE [raised |-> FALSE, val |-> ResultAnswer(prob.val, plot.val),
                   calls |-> <<Call("poisson_pmf", <<x, u>>),
                               Call("generate_poisson_plot_base64", <<u, PlotMaxX(u)>>)>>]

\* lam: float = Form(..., gt=0), x: int = Form(..., ge=0)
PoissonFormAccepts(x, u) == u > 0 /\ x >= 0

\* POST /  (form): try ... except Exception as e -> "Error: ..." page.
calculate_from_form ==
    /\ route = "none"
    /\ \E u \in LamUnits, x \in PoissonXs :
        /\ route' = "POST /"
        /\ req' = [lam |-> u, x |-> x]
        /\ IF ~PoissonFormAccepts(x, u)
           THEN resp' = Unprocessable /\ calls' = <<>>
           ELSE LET b == PoissonBody(x, u)
                IN  /\ resp' = IF b.raised THEN ErrorPage(b.val) ELSE b.val
                    /\ calls' = b.calls

\* PoissonRequest: lam: float, x: int -- the types only, no constraint.
PoissonApiAccepts(x, u) == TRUE

\* POST /api/poisson  (JSON): no try; an exception leaves the handler.
calculate_poisson_api ==
    /\ route = "none"
    /\ \E u \in LamUnits, x \in PoissonXs :
        /\ route' = "POST /api/poisson"
        /\ req' = [lam |-> u, x |-> x]
        /\ IF ~PoissonApiAccepts(x, u)
           THEN resp' = Unprocessable /\ calls' = <<>>
           ELSE LET b == PoissonBody(x, u)
                IN  /\ resp' = IF b.raised THEN ServerError(b.val) ELSE b.val
                    /\ calls' = b.calls

\* prob = hypergeometric_pmf(...); plot_url = generate_..._plot_base64(...)
HyperBody(x, N, K, n) ==
    [val |-> ResultAnswer(hypergeometric_pmf(x, N, K, n),
                          generate_hypergeometric_plot_base64(N, K, n)),
     calls |-> <<Call("hypergeometric_pmf", <<x, N, K, n>>),
                 Call("generate_hypergeometric_plot_base64", <<N, K, n>>)>>]

\* HypergeometricRequest: N, K, n, x: int -- the types only, no constraint.
HyperApiAccepts(x, N, K, n) == TRUE

\* POST /api/hypergeometric  (JSON)
calculate_hypergeometric_api ==
    /\ route = "none"
    /\ \E N \in Vals, K \in KVals, n \in Vals, x \in Vals :
        /\ route' = "POST /api/hypergeometric"
        /\ req' = [N |-> N, K |-> K, n |-> n, x |-> x]
        /\ IF ~HyperApiAccepts(x, N, K, n)
           THEN resp' = Unprocessable /\ calls' = <<>>
           ELSE LET b == HyperBody(x, N, K, n)
                IN  resp' = b.val /\ calls' = b.calls

\* GET /hyper
hyper_form ==
    /\ route = "none"
    /\ route' = "GET /hyper"
    /\ req' = [none |-> TRUE]
    /\ resp' = BlankPage
    /\ calls' = <<>>

\* N = Form(..., gt=0), K = Form(..., ge=0), n = Form(..., gt=0), x = Form(..., ge=0)
HyperFormAccepts(x, N, K, n) == N > 0 /\ K >= 0 /\ n > 0 /\ x >= 0

\* if K > N or n > N or x > n or x > K: raise ValueError(...)
Inconsistent(x, N, K, n) == K > N \/ n > N \/ x > n \/ x > K

\* POST /hyper  (form): the answer and the engine calls made for it.
\* raise ValueError inside try -> except Exception as e -> "Error: ..." page.
HyperFormAnswer(x, N, K, n) ==
    IF ~HyperFormAccepts(x, N, K, n)
    THEN [val |-> Unprocessable, calls |-> <<>>]
    ELSE IF Inconsistent(x, N, K, n)
         THEN [val |-> ErrorPage(InconsistentMsg), calls |-> <<>>]
         ELSE HyperBody(x, N, K, n)

calculate_hyper_from_form ==
    /\ route = "none"
    /\ \E N \in Vals, K \in KVals, n \in Vals, x \in Vals :
        /\ route' = "POST /hyper"
        /\ req' = [N |-> N, K |-> K, n |-> n, x |-> x]
        /\ resp' = HyperFormAnswer(x, N, K, n).val
        /\ calls' = HyperFormAnswer(x, N, K, n).calls

\* The answer is sent and the request, with everything computed for it, is
\* dropped; the application waits for the next request.
answer_sent ==
    /\ route # "none"
    /\ route' = "none"
    /\ req' = [none |-> TRUE]
    /\ resp' = Answer(0, "none", NoValue, "", <<>>)
    /\ calls' = <<>>

Next ==
    \/ home
    \/ calculate_from_form
    \/ calculate_poisson_api
    \/ calculate_hypergeometric_api
    \/ hyper_form
    \/ calculate_hyper_from_form
    \/ answer_sent

Spec == Init /\ [][Next]_vars

(* ------------------------------ claims --------------------------------- *)

HyperRoutes == {"POST /hyper", "POST /api/hypergeometric"}

PoissonRoutes == {"POST /", "POST /api/poisson"}

\* The answer carries a probability and a plot.
Answered == resp.result = "prob"

\* The request was turned away by the framework's parameter constraints.
Turned == resp.status = 422

\* N >= 1, 0 <= K <= N, 1 <= n <= N.
ValidTriple(N, K, n) == N >= 1 /\ 0 <= K /\ K <= N /\ 1 <= n /\ n <= N

RECURSIVE RefC(_, _)
\* The binomial coefficient by Pascal's rule, 0 when b < 0 or b > a.
RefC(a, b) ==
    IF b < 0 \/ b > a THEN 0
    ELSE IF b = 0 \/ b = a THEN 1
    ELSE RefC(a - 1, b - 1) + RefC(a - 1, b)

\* Equality of two fractions.
RatEq(p, q) == p.den # 0 /\ q.den # 0 /\ p.num * q.den = q.num * p.den

\* C1: every hypergeometric entry point turns a request with K>N, n>N, x>n
\* or x>K away with a validation failure before the engine is called, and
\* never answers it with a probability.
C1_InconsistentRejected ==
    (route \in HyperRoutes /\ (req.K > req.N \/ req.n > req.N \/ req.x > req.n \/ req.x > req.K))
        => (resp.result \in {"invalid", "error"} /\ calls = <<>>)

\* C2: every Poisson entry point turns a request with lam <= 0 or x < 0 away
\* at the boundary, so neither poisson_pmf nor the plot generator is called
\* by an entry point with lam <= 0 or x < 0.
C2_PoissonDomainEnforced ==
    route \in PoissonRoutes =>
        /\ (req.lam <= 0 \/ req.x < 0) => (Turned /\ calls = <<>>)
        /\ \A i \in 1..Len(calls) :
              /\ calls[i].fn = "poisson_pmf" => (calls[i].args[1] >= 0 /\ calls[i].args[2] > 0)
              /\ calls[i].fn = "generate_poisson_plot_base64" => calls[i].args[1] > 0

\* The inequalities among K<=N, n<=N, x<=n, x<=K that a request violates.
Violated(x, N, K, n) ==
    (IF K > N THEN {"K<=N"} ELSE {}) \cup (IF n > N THEN {"n<=N"} ELSE {})
    \cup (IF x > n THEN {"x<=n"} ELSE {}) \cup (IF x > K THEN {"x<=K"} ELSE {})

\* C3: the message of a failed boundary validation names the violated
\* constraint: a request rejected for violating exactly one inequality gets
\* a message different from the message of every request rejected for
\* violating exactly one other inequality.
C3_MessageNamesConstraint ==
    (/\ route = "POST /hyper"
     /\ resp.result = "error"
     /\ Cardinality(Violated(req.x, req.N, req.K, req.n)) = 1)
        => \A N \in Vals, K \in KVals, n \in Vals, x \in Vals :
              (/\ HyperFormAnswer(x, N, K, n).val.result = "error"
               /\ Cardinality(Violated(x, N, K, n)) = 1
               /\ Violated(x, N, K, n) # Violated(req.x, req.N, req.K, req.n))
                  => HyperFormAnswer(x, N, K, n).val.message # resp.message

\* The reference value of the hypergeometric probability.
RefPmf(x, N, K, n) ==
    IF x < Max(0, n + K - N) \/ x > Min(n, K)
    THEN [num |-> 0, den |-> 1]
    ELSE [num |-> RefC(K, x) * RefC(N - K, n - x), den |-> RefC(N, n)]

\* C4: for all integers x, N, K, n of the range, hypergeometric_pmf(x, N, K, n)
\* is 0 outside [max(0, n+K-N), min(n, K)] and C(K,x)*C(N-K,n-x)/C(N,n) inside.
C4_PmfIsReference ==
    (route \in HyperRoutes /\ Answered)
        => RatEq(resp.prob, RefPmf(req.x, req.N, req.K, req.n))

\* pmf(2, 10, 5, 4) = 100/210, asked of the JSON route.
C4_Witness ==
    /\ route = "POST /api/hypergeometric"
    /\ req = [N |-> 10, K |-> 5, n |-> 4, x |-> 2]
    /\ resp.prob.num = 100
    /\ resp.prob.den = 210

RECURSIVE SumScaled(_, _, _)
\* The sum of D * p over the first i points (x, p) of a series.
SumScaled(series, D, i) ==
    IF i = 0 THEN 0
    ELSE SumScaled(series, D, i - 1) + (series[i][2].num * D) \div series[i][2].den

\* C5: for every valid (N, K, n) the probabilities over the support add up to
\* exactly 1: with D = C(N, n), every D * p is an integer and they sum to D.
C5_SupportSumsToOne ==
    (route \in HyperRoutes /\ Answered /\ ValidTriple(req.N, req.K, req.n))
        => LET D == RefC(req.N, req.n)
           IN  /\ \A i \in 1..Len(resp.series) :
                     /\ resp.series[i][2].den # 0
                     /\ (resp.series[i][2].num * D) % resp.series[i][2].den = 0
               /\ SumScaled(resp.series, D, Len(resp.series)) = D

\* A support of five points, 0..4.
C5_Witness ==
    /\ route = "POST /hyper"
    /\ req = [N |-> 10, K |-> 5, n |-> 4, x |-> 2]
    /\ Answered
    /\ Len(resp.series) = 5

\* C6: for all valid (N, K, n) and every integer x,
\* hypergeometric_pmf(x, N, K, n) = hypergeometric_pmf(n-x, N, N-K, n).
C6_Symmetry ==
    (route \in HyperRoutes /\ Answered /\ ValidTriple(req.N, req.K, req.n))
        => RatEq(resp.prob, hypergeometric_pmf(req.n - req.x, req.N, req.N - req.K, req.n))

\* K # N-K and x # n-x: pmf(1, 10, 3, 4) = pmf(3, 10, 7, 4) = 105/210.
C6_Witness ==
    /\ route = "POST /api/hypergeometric"
    /\ req = [N |-> 10, K |-> 3, n |-> 4, x |-> 1]
    /\ resp.prob.num = 105
    /\ hypergeometric_pmf(3, 10, 7, 4).num = 105

\* C7: every Poisson request with lam > 0 (that the boundary lets in) is
\* answered with the series over x = 0..max_x, in increasing order without
\* gaps, max_x = floor(3*lam) if 3*lam > 15 and 15 otherwise, each point's
\* value being poisson_pmf(x, lam).
C7_PoissonSeries ==
    (route \in PoissonRoutes /\ req.lam > 0 /\ ~Turned)
        => LET m == IF 3 * req.lam > 15 * LamDen THEN (3 * req.lam) \div LamDen ELSE 15
           IN  /\ Answered
               /\ Len(resp.series) = m + 1
               /\ \A i \in 1..Len(resp.series) :
                     /\ resp.series[i][1] = i - 1
                     /\ resp.series[i][2] = poisson_pmf(i - 1, req.lam).val

\* C8: for every valid (N, K, n) the plotted series covers exactly the
\* integers from max(0, n+K-N) to min(n, K), each once, in increasing order.
C8_SeriesIsSupport ==
    (route \in HyperRoutes /\ Answered /\ ValidTriple(req.N, req.K, req.n))
        => LET lo == IF req.n + req.K - req.N > 0 THEN req.n + req.K - req.N ELSE 0
               hi == IF req.n < req.K THEN req.n ELSE req.K
           IN  /\ Len(resp.series) = hi - lo + 1
               /\ Len(resp.series) >= 1
               /\ \A i \in 1..Len(resp.series) : resp.series[i][1] = lo + i - 1

\* N = 10, K = 8, n = 5: the support is 3..5.
C8_Witness ==
    /\ route = "POST /hyper"
    /\ req = [N |-> 10, K |-> 8, n |-> 5, x |-> 4]
    /\ Len(resp.series) = 3
    /\ resp.series[1][1] = 3
    /\ resp.series[3][1] = 5

\* C9: the engines never raise: a request that reaches the engines is
\* answered with a probability, which is 0.0 when x < 0 or lam <= 0.
C9_EnginesNeverRaise ==
    (route \in PoissonRoutes \cup HyperRoutes /\ calls # <<>>)
        => /\ Answered
           /\ (route \in PoissonRoutes /\ (req.x < 0 \/ req.lam <= 0)) => resp.prob = Zero

\* C10: a request that passes the form's boundary validation has N >= 1,
\* 0 <= K <= N, 1 <= n <= N and max(0, n+K-N) <= x <= min(n, K); its x is
\* among the plotted x and its probability is strictly positive.
C10_ValidatedIsWellFormed ==
    (route = "POST /hyper" /\ Answered)
        => /\ ValidTriple(req.N, req.K, req.n)
           /\ Max(0, req.n + req.K - req.N) <= req.x
           /\ req.x <= Min(req.n, req.K)
           /\ \E i \in 1..Len(resp.series) : resp.series[i][1] = req.x
           /\ resp.prob.num > 0

====
